---- MODULE Spec2Model ----
(***************************************************************************)
(* Model of projects/2025/August/scottish_munros/python/exploration.py:    *)
(* a top-to-bottom script that loads a table of peaks, attaches point      *)
(* geometries, partitions the rows by their '2021' label, matches every    *)
(* "Munro" with its nearest "Munro Top", aggregates the matched distances  *)
(* (mean, median) and saves a plot.                                        *)
(*                                                                         *)
(* Conventions.                                                            *)
(*  - A data frame is a sequence of records in row order; the field idx    *)
(*    is the row's pandas index label (read_csv's RangeIndex), which       *)
(*    filter, select, apply and mutate all preserve.                       *)
(*  - Column '2021' is the field c2021.                                    *)
(*  - A planar distance is sqrt(dx^2 + dy^2) kept to whole metres (Isqrt); *)
(*    coordinates lie on a whole-kilometre grid, so distinct true          *)
(*    distances stay distinct.                                             *)
(*  - closest_distance, dist_mean and dist_median are exact rationals      *)
(*    [num, den] in lowest terms.                                          *)
(*  - An optional value is <<>> (not yet computed) or <<v>>.               *)
(***************************************************************************)
EXTENDS Integers, Sequences, FiniteSets, TLC

VARIABLES
    csv,              \* the remote CSV resource: the rows read_csv would return
    writable,         \* whether the output path can be written
    pc,               \* position of the script
    err,              \* the exception that aborted the run ("" while none)
    failed,           \* the stage in which the run aborted ("" while none)
    stages,           \* the stages completed so far, in order
    munros,           \* line 20
    munros_geo,       \* line 32
    only_munros,      \* lines 39 and 57
    only_munro_tops,  \* line 46
    closest_points,   \* line 53
    dist_mean,        \* line 68
    dist_median,      \* line 69
    fig,              \* lines 72-102: what the figure shows
    png               \* the file at the fixed output path

vars == <<csv, writable, pc, err, failed, stages, munros, munros_geo,
          only_munros, only_munro_tops, closest_points, dist_mean,
          dist_median, fig, png>>

----------------------------------------------------------------------------
\* Bounds of the model.

\* Longest table drawn in Init.
MaxRows == 3
\* Peaks lie 0..MaxCoord kilometres east of the origin, 0 or 1 km north.
MaxCoord == 1
\* Longest distance sequence and largest distance (km) of the aggregator inputs.
MaxAgg == 4
MaxDist == 4

\* Line 62: metres per kilometre.
KmScale == 1000
\* Line 75: margin added to the x axis limit.
XMargin == 5

XCoords == {c * KmScale : c \in 0..MaxCoord}
YCoords == {0, KmScale}

----------------------------------------------------------------------------
\* Arithmetic.
\*
\* Several operators below have the shape  F(e) == CHOOSE r \in {G(v) : v \in
\* {e}} : TRUE,  which is G(e): TLC evaluates an operator's argument anew at
\* every use when it computes ENABLED, while a bound variable holds a value
\* computed once.

RECURSIVE GCDOf(_)
\* Euclid's algorithm on the pair p. Each round binds the next pair to a value
\* before recursing, so no round is evaluated twice.
GCDOf(p) ==
    IF p[2] = 0 THEN p[1]
    ELSE CHOOSE g \in {GCDOf(q) : q \in {<<p[2], p[1] % p[2]>>}} : TRUE

GCD(a, b) == CHOOSE g \in {GCDOf(p) : p \in {<<a, b>>}} : TRUE

\* The pair p[1]/p[2] in lowest terms.
Lowest(p) == LET g == GCDOf(p) IN [num |-> p[1] \div g, den |-> p[2] \div g]

\* The rational n/d in lowest terms (n >= 0, d > 0).
Rat(n, d) == CHOOSE r \in {Lowest(p) : p \in {<<n, d>>}} : TRUE

RAdd(a, b) == Rat(a.num * b.den + b.num * a.den, a.den * b.den)
RDivInt(a, k) == Rat(a.num, a.den * k)
RLess(a, b) == a.num * b.den < b.num * a.den
RLeq(a, b) == a.num * b.den <= b.num * a.den

RECURSIVE IsqrtFrom(_)
\* Binary digits of the root, from the highest down: t = <<n, r, bit>> with
\* r^2 <= n the root found so far and bit the next digit to try.
IsqrtFrom(t) ==
    IF t[3] = 0 THEN t[2]
    ELSE CHOOSE x \in
             {IsqrtFrom(u) :
                 u \in {<<t[1],
                          IF /\ t[2] + t[3] <= 46340
                             /\ (t[2] + t[3]) * (t[2] + t[3]) <= t[1]
                          THEN t[2] + t[3] ELSE t[2],
                          t[3] \div 2>>}} : TRUE

\* Square root, to whole units: the r with r^2 <= n < (r+1)^2, for n < 2^31.
Isqrt(n) == CHOOSE r \in {IsqrtFrom(<<v, 0, 32768>>) : v \in {n}} : TRUE

\* shapely's Point.distance: Euclidean distance in the CRS's unit (metres).
Distance(p, q) ==
    Isqrt((p[1] - q[1]) * (p[1] - q[1]) + (p[2] - q[2]) * (p[2] - q[2]))

----------------------------------------------------------------------------
\* Data frames.

\* One row of the CSV resource. Name and the two heights are carried through
\* the pipeline untouched; they are fixed by the row's position.
CsvRow(i, label, x, y) ==
    [Name |-> ToString(i), Height_m |-> 900 + i, Height_ft |-> 3000 + i,
     c2021 |-> label, xcoord |-> x, ycoord |-> y]

\* pd.read_csv: the rows in file order under a RangeIndex 0, 1, 2, ...
ReadCsv(c) ==
    [i \in 1..Len(c) |->
        [idx |-> i - 1, Name |-> c[i].Name, Height_m |-> c[i].Height_m,
         Height_ft |-> c[i].Height_ft, c2021 |-> c[i].c2021,
         xcoord |-> c[i].xcoord, ycoord |-> c[i].ycoord]]

\* gpd.GeoDataFrame(data, crs, geometry=points_from_xy(xcoord, ycoord)):
\* every row gains a point built from its coordinate pair as it stands.
GeoDataFrame(df) ==
    [i \in 1..Len(df) |->
        [idx |-> df[i].idx, Name |-> df[i].Name, Height_m |-> df[i].Height_m,
         Height_ft |-> df[i].Height_ft, c2021 |-> df[i].c2021,
         xcoord |-> df[i].xcoord, ycoord |-> df[i].ycoord,
         geometry |-> <<df[i].xcoord, df[i].ycoord>>]]

\* Mutant of LabelIs: a substring test, under which "Munro Top" also counts as
\* "Munro".
LabelIs_Contains(r, label) ==
    r.c2021 = label \/ (label = "Munro" /\ r.c2021 = "Munro Top")

\* The predicate _['2021'] == label: exact string equality.
LabelIs(r, label) == r.c2021 = label

RECURSIVE Filter(_, _)
\* siuba filter: the rows satisfying the predicate, order and index kept.
Filter(df, label) ==
    IF df = <<>> THEN <<>>
    ELSE IF LabelIs(Head(df), label)
         THEN <<Head(df)>> \o Filter(Tail(df), label)
         ELSE Filter(Tail(df), label)

\* siuba select(_.Name, _.Height_m, _.Height_ft, _['2021'], _.geometry).
Select(df) ==
    [i \in 1..Len(df) |->
        [idx |-> df[i].idx, Name |-> df[i].Name, Height_m |-> df[i].Height_m,
         Height_ft |-> df[i].Height_ft, c2021 |-> df[i].c2021,
         geometry |-> df[i].geometry]]

\* only_munro_tops.geometry.distance(x): one distance per row, index kept.
DistanceSeries(df, x) ==
    [j \in 1..Len(df) |->
        [idx |-> df[j].idx, val |-> Distance(df[j].geometry, x)]]

\* Mutant of Idxmin: the last occurrence of the minimum.
Idxmin_Last(series) ==
    CHOOSE l \in
        {s[CHOOSE k \in 1..Len(s) :
               /\ \A m \in 1..Len(s) : s[k].val <= s[m].val
               /\ \A m \in (k + 1)..Len(s) : s[m].val > s[k].val].idx :
           s \in {series}} : TRUE

\* Series.idxmin on a non-empty series: the label of the first occurrence of
\* the minimum.
IdxminOf(series) ==
    LET j == CHOOSE k \in 1..Len(series) :
                 /\ \A m \in 1..Len(series) : series[k].val <= series[m].val
                 /\ \A m \in 1..(k - 1) : series[m].val > series[k].val
    IN series[j].idx

Idxmin(series) == CHOOSE l \in {IdxminOf(s) : s \in {series}} : TRUE

\* DataFrame.loc[label] on a unique index: the row carrying that label.
Loc(df, label) == df[CHOOSE j \in 1..Len(df) : df[j].idx = label]

\* Series.apply over a non-empty geometry column with a function returning a
\* row: a frame with that row's columns, indexed like the column applied over.
\* Mutant of ClosestRows: the nearest row is sought among all the rows at hand,
\* the Munros themselves included.
ClosestRows_All(A, B) ==
    [i \in 1..Len(A) |->
        LET b == Loc(A \o B, Idxmin(DistanceSeries(A \o B, A[i].geometry)))
        IN [idx |-> A[i].idx, Name |-> b.Name, Height_m |-> b.Height_m,
            Height_ft |-> b.Height_ft, c2021 |-> b.c2021,
            geometry |-> b.geometry]]

\* Row b under the index label of row a.
Reindexed(b, a) ==
    [idx |-> a.idx, Name |-> b.Name, Height_m |-> b.Height_m,
     Height_ft |-> b.Height_ft, c2021 |-> b.c2021, geometry |-> b.geometry]

ClosestRows(A, B) ==
    [i \in 1..Len(A) |->
        CHOOSE r \in {Reindexed(b, A[i]) :
                        b \in {Loc(B, Idxmin(DistanceSeries(B, A[i].geometry)))}} :
            TRUE]

\* Mutant of ApplyEmptyResult: an empty frame, on which a column can be read.
ApplyEmptyResult_Frame == [kind |-> "DataFrame", rows |-> <<>>]

\* Series.apply over an empty column never calls the function and returns an
\* empty Series: it has no columns.
ApplyEmptyResult == [kind |-> "Series", rows |-> <<>>]

\* closest_points[col] raises KeyError unless closest_points is a frame.
ColumnMissing(cp) == cp.kind # "DataFrame"

\* Mutant of ClosestDistance: the division by 1000 left out.
ClosestDistance_NoScale(g, cg) == Rat(Distance(g, cg), 1)

\* row['geometry'].distance(row['closest_geometry']) / 1000.
ClosestDistance(g, cg) == Rat(Distance(g, cg), KmScale)

\* Mutant of MutateRow: the match's point is written over the row's own.
MutateRow_Overwrite(a, cp) ==
    LET c == Loc(cp, a.idx)
    IN [idx |-> a.idx, Name |-> a.Name, Height_m |-> a.Height_m,
        Height_ft |-> a.Height_ft, c2021 |-> a.c2021, geometry |-> c.geometry,
        closest_name |-> c.Name, closest_geometry |-> c.geometry,
        closest_distance |-> Rat(Distance(a.geometry, c.geometry), KmScale)]

\* The three mutate calls on one row: assignment aligns closest_points on the
\* index, and the row's own columns are kept.
MutateRow(a, cp) ==
    LET c == Loc(cp, a.idx)
    IN [idx |-> a.idx, Name |-> a.Name, Height_m |-> a.Height_m,
        Height_ft |-> a.Height_ft, c2021 |-> a.c2021, geometry |-> a.geometry,
        closest_name |-> c.Name, closest_geometry |-> c.geometry,
        closest_distance |-> ClosestDistance(a.geometry, c.geometry)]

\* The closest_distance column.
Distances(df) == [i \in 1..Len(df) |-> df[i].closest_distance]

RECURSIVE RSum(_)
\* sum(...) over the column, starting from 0.
RSum(ds) == IF ds = <<>> THEN Rat(0, 1) ELSE RAdd(Head(ds), RSum(Tail(ds)))

\* sum(only_munros.closest_distance) / len(only_munros), non-empty.
Mean(ds) == RDivInt(RSum(ds), Len(ds))

\* Mutant of Median: the upper middle value, whatever the parity.
Median_UpperMiddle(ds) == SortSeq(ds, RLess)[Len(ds) \div 2 + 1]

\* statistics.median on a non-empty sequence: sort, then the middle value or
\* the average of the two middle values.
Median(ds) ==
    LET data == SortSeq(ds, RLess)
        n == Len(data)
        i == n \div 2
    IN IF n % 2 = 1 THEN data[i + 1]
       ELSE RDivInt(RAdd(data[i], data[i + 1]), 2)

\* max(only_munros["closest_distance"]), non-empty.
MaxOf(ds) == CHOOSE d \in {ds[i] : i \in 1..Len(ds)} :
                 \A i \in 1..Len(ds) : RLeq(ds[i], d)

----------------------------------------------------------------------------
\* The script.

\* The stages of the run, in order.
Pipeline == <<"load", "project", "partition", "match", "aggregate", "render">>

\* Mutant of Abort: the exception is recorded and the script falls through to
\* saving whatever figure there is.
Abort_FallThrough(stage, e) ==
    /\ pc' = "save"
    /\ err' = e
    /\ failed' = stage

\* An unhandled exception: the interpreter stops; nothing later executes.
Abort(stage, e) ==
    /\ pc' = "aborted"
    /\ err' = e
    /\ failed' = stage

NoAbort == UNCHANGED <<err, failed>>

\* The cells a row of the drawn tables may hold: a Munro on the grid's x axis,
\* a Munro Top anywhere on the grid, or a row of another label (dropped by both
\* filters) at the origin.
Cells ==
    ({"Munro"} \X XCoords \X {0})
        \cup ({"Munro Top"} \X XCoords \X YCoords)
        \cup {<<"Other", 0, 0>>}

\* The state before line 20, with the resource holding table c.
Start(c) ==
    /\ csv = c
    /\ writable \in BOOLEAN
    /\ pc = "load"
    /\ err = ""
    /\ failed = ""
    /\ stages = <<>>
    /\ munros = <<>>
    /\ munros_geo = <<>>
    /\ only_munros = <<>>
    /\ only_munro_tops = <<>>
    /\ closest_points = [kind |-> "unset", rows |-> <<>>]
    /\ dist_mean = <<>>
    /\ dist_median = <<>>
    /\ fig = <<>>
    /\ png = "absent"

Init ==
    \E n \in 0..MaxRows : \E c \in [1..n -> Cells] :
        Start([i \in 1..n |-> CsvRow(i - 1, c[i][1], c[i][2], c[i][3])])

\* Spacing of the Munros of the aggregator inputs: wider than any distance.
Far == (MaxDist + 1) * KmScale

\* A table whose matched distances are ds kilometres, in that order: Munro i
\* lies Far east of Munro i-1, with its Munro Top ds[i] km to the north.
TableFor(ds) ==
    LET n == Len(ds)
    IN [i \in 1..(2 * n) |->
          IF i <= n
          THEN CsvRow(i - 1, "Munro", (i - 1) * Far, 0)
          ELSE CsvRow(i - 1, "Munro Top", (i - n - 1) * Far,
                      ds[i - n] * KmScale)]

InitAgg ==
    \E n \in 1..MaxAgg : \E ds \in [1..n -> 1..MaxDist] : Start(TableFor(ds))

\* Lines 20-23: fetch the CSV; an unreachable resource raises.
Load ==
    /\ pc = "load"
    /\ \E ok \in BOOLEAN :
          IF ok
          THEN /\ munros' = ReadCsv(csv)
               /\ pc' = "project"
               /\ stages' = Append(stages, "load")
               /\ NoAbort
          ELSE /\ Abort("load", "URLError")
               /\ UNCHANGED <<munros, stages>>
    /\ UNCHANGED <<csv, writable, munros_geo, only_munros, only_munro_tops,
                   closest_points, dist_mean, dist_median, fig, png>>

\* Lines 32-36.
Project ==
    /\ pc = "project"
    /\ munros_geo' = GeoDataFrame(munros)
    /\ pc' = "partition"
    /\ stages' = Append(stages, "project")
    /\ NoAbort
    /\ UNCHANGED <<csv, writable, munros, only_munros, only_munro_tops,
                   closest_points, dist_mean, dist_median, fig, png>>

\* Lines 39-50.
Partition ==
    /\ pc = "partition"
    /\ only_munros' = Select(Filter(munros_geo, "Munro"))
    /\ only_munro_tops' = Select(Filter(munros_geo, "Munro Top"))
    /\ pc' = "closest"
    /\ stages' = Append(stages, "partition")
    /\ NoAbort
    /\ UNCHANGED <<csv, writable, munros, munros_geo, closest_points,
                   dist_mean, dist_median, fig, png>>

\* Mutant of FindClosest: with no Munro Top to choose from, every Munro is
\* matched with a placeholder at its own place instead of raising.
FindClosest_Placeholder ==
    /\ pc = "closest"
    /\ closest_points' =
           IF only_munros = <<>>
           THEN [kind |-> "Series", rows |-> <<>>]
           ELSE IF only_munro_tops = <<>>
           THEN [kind |-> "DataFrame",
                 rows |-> [i \in 1..Len(only_munros) |->
                              [idx |-> only_munros[i].idx, Name |-> "",
                               Height_m |-> 0, Height_ft |-> 0, c2021 |-> "",
                               geometry |-> only_munros[i].geometry]]]
           ELSE [kind |-> "DataFrame",
                 rows |-> [i \in 1..Len(only_munros) |->
                              LET b == only_munro_tops[CHOOSE j \in
                                           1..Len(only_munro_tops) :
                                       only_munro_tops[j].idx =
                                           Idxmin(DistanceSeries(only_munro_tops,
                                                      only_munros[i].geometry))]
                              IN [idx |-> only_munros[i].idx, Name |-> b.Name,
                                  Height_m |-> b.Height_m,
                                  Height_ft |-> b.Height_ft, c2021 |-> b.c2021,
                                  geometry |-> b.geometry]]]
    /\ pc' = "mutate"
    /\ UNCHANGED <<err, failed>>
    /\ UNCHANGED <<csv, writable, stages, munros, munros_geo, only_munros,
                   only_munro_tops, dist_mean, dist_median, fig, png>>

\* Lines 53-55. Over an empty only_munros the lambda is never called; otherwise
\* idxmin of an empty distance series raises ValueError.
FindClosest ==
    /\ pc = "closest"
    /\ IF only_munros = <<>>
       THEN /\ closest_points' = ApplyEmptyResult
            /\ pc' = "mutate"
            /\ NoAbort
       ELSE IF only_munro_tops = <<>>
       THEN /\ Abort("match", "ValueError")
            /\ UNCHANGED closest_points
       ELSE /\ closest_points' =
                   [kind |-> "DataFrame",
                    rows |-> ClosestRows(only_munros, only_munro_tops)]
            /\ pc' = "mutate"
            /\ NoAbort
    /\ UNCHANGED <<csv, writable, stages, munros, munros_geo, only_munros,
                   only_munro_tops, dist_mean, dist_median, fig, png>>

\* Lines 57-65. closest_points['Name'] is evaluated first and raises KeyError
\* when closest_points has no such column.
Mutate ==
    /\ pc = "mutate"
    /\ IF ColumnMissing(closest_points)
       THEN /\ Abort("match", "KeyError")
            /\ UNCHANGED <<only_munros, stages>>
       ELSE /\ only_munros' =
                   [i \in 1..Len(only_munros) |->
                       MutateRow(only_munros[i], closest_points.rows)]
            /\ pc' = "aggregate"
            /\ stages' = Append(stages, "match")
            /\ NoAbort
    /\ UNCHANGED <<csv, writable, munros, munros_geo, only_munro_tops,
                   closest_points, dist_mean, dist_median, fig, png>>

\* Lines 68-69. Line 68 divides by len(only_munros).
Aggregate ==
    /\ pc = "aggregate"
    /\ IF Len(only_munros) = 0
       THEN /\ Abort("aggregate", "ZeroDivisionError")
            /\ UNCHANGED <<dist_mean, dist_median, stages>>
       ELSE /\ dist_mean' = <<Mean(Distances(only_munros))>>
            /\ dist_median' = <<Median(Distances(only_munros))>>
            /\ pc' = "render"
            /\ stages' = Append(stages, "aggregate")
            /\ NoAbort
    /\ UNCHANGED <<csv, writable, munros, munros_geo, only_munros,
                   only_munro_tops, closest_points, fig, png>>

\* Mutant of Render: the density estimate raises when the distances have no
\* spread (a single Munro, or all distances equal).
Render_Singular ==
    /\ pc = "render"
    /\ IF \A i \in 1..Len(only_munros) :
              only_munros[i].closest_distance = only_munros[1].closest_distance
       THEN /\ pc' = "aborted"
            /\ err' = "LinAlgError"
            /\ failed' = "render"
            /\ UNCHANGED fig
       ELSE /\ fig' = <<[xlim |-> <<Rat(0, 1), Rat(XMargin, 1)>>,
                         x |-> <<>>,
                         vlines |-> <<dist_mean[1], dist_median[1]>>]>>
            /\ pc' = "save"
            /\ UNCHANGED <<err, failed>>
    /\ UNCHANGED <<csv, writable, stages, munros, munros_geo, only_munros,
                   only_munro_tops, closest_points, dist_mean, dist_median, png>>

\* Lines 72-102: the figure, in memory.
Render ==
    /\ pc = "render"
    /\ fig' = <<[xlim |-> <<Rat(0, 1),
                            RAdd(MaxOf(Distances(only_munros)), Rat(XMargin, 1))>>,
                 x |-> Distances(only_munros),
                 vlines |-> <<dist_mean[1], dist_median[1]>>]>>
    /\ pc' = "save"
    /\ NoAbort
    /\ UNCHANGED <<csv, writable, stages, munros, munros_geo, only_munros,
                   only_munro_tops, closest_points, dist_mean, dist_median, png>>

\* Line 105: write the image, replacing whatever is at the path.
SaveFig ==
    /\ pc = "save"
    /\ IF writable
       THEN /\ png' = "written"
            /\ pc' = "done"
            /\ stages' = Append(stages, "render")
            /\ NoAbort
       ELSE /\ Abort("render", "OSError")
            /\ UNCHANGED <<png, stages>>
    /\ UNCHANGED <<csv, writable, munros, munros_geo, only_munros,
                   only_munro_tops, closest_points, dist_mean, dist_median, fig>>

Next ==
    \/ Load
    \/ Project
    \/ Partition
    \/ FindClosest
    \/ Mutate
    \/ Aggregate
    \/ Render
    \/ SaveFig

Spec == Init /\ [][Next]_vars

\* The same script over the tables TableFor builds.
SpecAgg == InitAgg /\ [][Next]_vars

\* The interpreter runs the script to completion: a statement that can execute
\* does.
FairSpec == Spec /\ WF_vars(Next)

----------------------------------------------------------------------------
\* Properties.

\* Whether the stage has run to completion.
Completed(stage) == \E i \in 1..Len(stages) : stages[i] = stage

IdxOf(df) == {df[i].idx : i \in 1..Len(df)}

\* The metres a distance in kilometres stands for.
Metres(d) == (d.num * KmScale) \div d.den

RECURSIVE SumMetres(_)
SumMetres(ds) == IF ds = <<>> THEN 0 ELSE Metres(Head(ds)) + SumMetres(Tail(ds))

\* v is the k-th smallest value of ds.
Kth(ds, k, v) ==
    /\ \E i \in 1..Len(ds) : ds[i] = v
    /\ Cardinality({i \in 1..Len(ds) : RLess(ds[i], v)}) < k
    /\ k <= Cardinality({i \in 1..Len(ds) : RLeq(ds[i], v)})

\* ds holds exactly the whole numbers 1..n, in any order.
IsPermOfOneTo(ds, n) ==
    /\ Len(ds) = n
    /\ \A v \in 1..n : \E i \in 1..n : ds[i] = [num |-> v, den |-> 1]

\* C1: once the Matcher has run, every row of only_munros records a
\* closest_distance that is >= 0, is the metre distance to some row of
\* only_munro_tops divided by 1000, and is exceeded by no row of
\* only_munro_tops: it is the minimum candidate distance, in kilometres.
C1_NearestDistance ==
    Completed("match") =>
        \A i \in 1..Len(only_munros) :
            LET a == only_munros[i]
                cd == a.closest_distance
                D == [j \in 1..Len(only_munro_tops) |->
                         Distance(a.geometry, only_munro_tops[j].geometry)]
            IN /\ cd.num >= 0 /\ cd.den > 0
               /\ \E j \in 1..Len(only_munro_tops) :
                      cd.num * KmScale = D[j] * cd.den
               /\ \A j \in 1..Len(only_munro_tops) :
                      cd.num * KmScale <= D[j] * cd.den

\* C1 witness: a matched Munro at a positive distance with a farther candidate.
C1_Witness ==
    /\ Completed("match")
    /\ \E i \in 1..Len(only_munros) : \E j \in 1..Len(only_munro_tops) :
          LET a == only_munros[i]
          IN /\ a.closest_distance.num > 0
             /\ a.closest_distance.num * KmScale <
                    Distance(a.geometry, only_munro_tops[j].geometry)
                        * a.closest_distance.den

\* C2: with only_munro_tops empty and only_munros non-empty, once the Matcher
\* has been entered the run is aborted in the match stage by an exception, and
\* no match result exists: closest_points was never assigned, no row carries a
\* closest_distance, and no mean or median was computed.
C2_EmptyTopsAbort ==
    (/\ Completed("partition")
     /\ only_munro_tops = <<>>
     /\ only_munros # <<>>
     /\ pc # "closest")
    => /\ pc = "aborted"
       /\ failed = "match"
       /\ err = "ValueError"
       /\ closest_points.kind = "unset"
       /\ \A i \in 1..Len(only_munros) :
              "closest_distance" \notin DOMAIN only_munros[i]
       /\ dist_mean = <<>>
       /\ dist_median = <<>>
       /\ png = "absent"

\* C2 witness: the Matcher ran with Munros but no Munro Top.
C2_Witness ==
    /\ Completed("partition")
    /\ only_munro_tops = <<>>
    /\ Len(only_munros) >= 2
    /\ pc = "aborted"

\* C3: once the Aggregator has run on a non-empty distance column, dist_mean
\* times the count is the sum of the distances, and dist_median is the middle
\* order statistic for an odd count and the average of the two middle order
\* statistics for an even count; the mean of one element is that element, the
\* median of 1,2,3 is 2 and the median of 1,2,3,4 is 5/2.
C3_MeanMedian ==
    Completed("aggregate") =>
        LET ds == Distances(only_munros)
            n == Len(ds)
            mean == dist_mean[1]
            med == dist_median[1]
        IN /\ n >= 1
           /\ mean.num * KmScale * n = SumMetres(ds) * mean.den
           /\ n % 2 = 1 => Kth(ds, (n + 1) \div 2, med)
           /\ n % 2 = 0 =>
                 \E i, j \in 1..n :
                     /\ Kth(ds, n \div 2, ds[i])
                     /\ Kth(ds, n \div 2 + 1, ds[j])
                     /\ 2 * med.num * KmScale
                            = (Metres(ds[i]) + Metres(ds[j])) * med.den
           /\ n = 1 => mean = ds[1]
           /\ IsPermOfOneTo(ds, 3) => med = [num |-> 2, den |-> 1]
           /\ IsPermOfOneTo(ds, 4) => med = [num |-> 5, den |-> 2]

\* C3 witness: the distances 1,2,3,4 km, out of order, aggregated to a median
\* of 5/2 and a mean of 5/2.
C3_Witness ==
    /\ Completed("aggregate")
    /\ IsPermOfOneTo(Distances(only_munros), 4)
    /\ only_munros[1].closest_distance = [num |-> 4, den |-> 1]
    /\ only_munros[2].closest_distance = [num |-> 1, den |-> 1]
    /\ dist_median = <<[num |-> 5, den |-> 2]>>
    /\ dist_mean = <<[num |-> 5, den |-> 2]>>

\* C4 as claimed: with only_munros empty the Matcher does not fail, and the run
\* aborts in the Aggregator, with no mean or median.
C4_Original ==
    (Completed("partition") /\ only_munros = <<>>)
    => /\ failed # "match"
       /\ pc = "aborted" => failed = "aggregate"
       /\ dist_mean = <<>>
       /\ dist_median = <<>>

\* C4 as amended: with only_munros empty, the apply of lines 53-55 yields zero
\* match results without failing, and the Matcher then aborts the run with a
\* KeyError when it reads the 'Name' column of that empty result (line 59); the
\* Aggregator never runs and no mean or median is produced.
C4_EmptyMunrosAbort ==
    (Completed("partition") /\ only_munros = <<>> /\ pc # "closest")
    => /\ closest_points.rows = <<>>
       /\ closest_points.kind # "unset"
       /\ pc \in {"mutate", "aborted"}
       /\ pc = "aborted" => (failed = "match" /\ err = "KeyError")
       /\ ~Completed("match")
       /\ dist_mean = <<>>
       /\ dist_median = <<>>

\* C4 witness: a table with Munro Tops but no Munro, aborted in the Matcher.
C4_Witness ==
    /\ Completed("partition")
    /\ only_munros = <<>>
    /\ only_munro_tops # <<>>
    /\ pc = "aborted"
    /\ failed = "match"

\* C5: once the Partitioner has run, only_munros holds exactly the rows of the
\* table labelled "Munro" and only_munro_tops exactly those labelled
\* "Munro Top", each once; the two are disjoint and a row with any other label
\* is in neither.
C5_Partition ==
    Completed("partition") =>
        /\ IdxOf(only_munros) =
               {munros_geo[i].idx : i \in
                   {k \in 1..Len(munros_geo) : munros_geo[k].c2021 = "Munro"}}
        /\ IdxOf(only_munro_tops) =
               {munros_geo[i].idx : i \in
                   {k \in 1..Len(munros_geo) : munros_geo[k].c2021 = "Munro Top"}}
        /\ Cardinality(IdxOf(only_munros)) = Len(only_munros)
        /\ Cardinality(IdxOf(only_munro_tops)) = Len(only_munro_tops)
        /\ IdxOf(only_munros) \cap IdxOf(only_munro_tops) = {}
        /\ \A i \in 1..Len(munros_geo) :
               munros_geo[i].c2021 \notin {"Munro", "Munro Top"} =>
                   munros_geo[i].idx \notin
                       IdxOf(only_munros) \cup IdxOf(only_munro_tops)

\* C5 witness: a partitioned table holding a Munro, a Munro Top and a row of
\* another label.
C5_Witness ==
    /\ Completed("partition")
    /\ only_munros # <<>>
    /\ only_munro_tops # <<>>
    /\ Len(munros_geo) > Len(only_munros) + Len(only_munro_tops)

\* C6: the stages completed are always an initial part of the pipeline, each
\* run once and in order; a run is aborted exactly when a stage failed, the
\* failed stage is the one after the last completed stage, nothing executes
\* after an abort or after the end, and the file is written only as the last
\* step of a run in which every stage completed.
C6_AbortAndOrder ==
    /\ Len(stages) <= Len(Pipeline)
    /\ \A i \in 1..Len(stages) : stages[i] = Pipeline[i]
    /\ (pc = "aborted") <=> (failed # "")
    /\ (pc = "aborted") <=> (err # "")
    /\ failed # "" =>
           /\ Len(stages) < Len(Pipeline)
           /\ failed = Pipeline[Len(stages) + 1]
           /\ png = "absent"
    /\ pc \in {"aborted", "done"} => ~ENABLED Next
    /\ png = "written" <=> pc = "done"
    /\ pc = "done" => stages = Pipeline

\* C6 witness: the write failed after every earlier stage completed.
C6_Witness ==
    /\ pc = "aborted"
    /\ failed = "render"
    /\ Len(stages) = 5
    /\ png = "absent"

\* C7: a run whose partition left both subsets non-empty, with a writable
\* output path, eventually ends with the output file written; and every run
\* eventually ends, completed or aborted.
C7_Terminates ==
    /\ (/\ Completed("partition")
        /\ only_munros # <<>>
        /\ only_munro_tops # <<>>
        /\ writable)
       ~> (pc = "done" /\ png = "written")
    /\ <>(pc \in {"done", "aborted"})

\* C7 witness: a finished run over a single Munro and a single Munro Top.
C7_Witness ==
    /\ pc = "done"
    /\ png = "written"
    /\ Len(only_munros) = 1
    /\ Len(only_munro_tops) = 1
    /\ writable

\* C8: once the Matcher has run, the closest_name and closest_geometry of
\* every Munro are those of one row of only_munro_tops: the first row, in row
\* order, among those at the minimum distance.
C8_FirstOfTies ==
    Completed("match") =>
        \A i \in 1..Len(only_munros) :
            LET a == only_munros[i]
                B == only_munro_tops
                D == [j \in 1..Len(B) |-> Distance(a.geometry, B[j].geometry)]
                AtMin == {j \in 1..Len(B) : \A m \in 1..Len(B) : D[j] <= D[m]}
            IN \E j \in AtMin :
                   /\ \A m \in AtMin : j <= m
                   /\ a.closest_name = B[j].Name
                   /\ a.closest_geometry = B[j].geometry

\* C8 witness: a Munro with two Munro Tops at different places, both at the
\* minimum distance.
C8_Witness ==
    /\ Completed("match")
    /\ \E i \in 1..Len(only_munros) : \E j, k \in 1..Len(only_munro_tops) :
          LET a == only_munros[i]
              B == only_munro_tops
          IN /\ j < k
             /\ B[j].geometry # B[k].geometry
             /\ Distance(a.geometry, B[j].geometry)
                    = Distance(a.geometry, B[k].geometry)
             /\ \A m \in 1..Len(B) :
                    Distance(a.geometry, B[j].geometry)
                        <= Distance(a.geometry, B[m].geometry)

OwnColumns == {"idx", "Name", "Height_m", "Height_ft", "c2021", "geometry"}
AddedColumns == {"closest_name", "closest_geometry", "closest_distance"}

\* What C9 asks of one step.
MatcherStepFrame ==
    pc \in {"closest", "mutate"} =>
        /\ only_munro_tops' = only_munro_tops
        /\ munros_geo' = munros_geo
        /\ Len(only_munros') = Len(only_munros)
        /\ \A i \in 1..Len(only_munros) :
              /\ \A f \in OwnColumns : only_munros'[i][f] = only_munros[i][f]
              /\ DOMAIN only_munros[i] = OwnColumns
              /\ DOMAIN only_munros'[i] =
                     (IF pc' = "aggregate"
                      THEN OwnColumns \cup AddedColumns
                      ELSE OwnColumns)

\* C9: a step of the Matcher leaves only_munro_tops and the projected table as
\* they were, keeps every row of only_munros with its own columns unchanged,
\* and adds nothing but the three closest_ columns, which every row has once
\* the Matcher completes.
C9_MatcherFrame == [][MatcherStepFrame]_vars

\* C9 witness: the Matcher completed over two Munros and a Munro Top.
C9_Witness ==
    /\ Completed("match")
    /\ Len(only_munros) >= 2
    /\ only_munro_tops # <<>>
    /\ DOMAIN only_munros[1] = OwnColumns \cup AddedColumns

\* C10: with only_munro_tops non-empty, the apply of lines 53-55 yields one
\* match per row of only_munros, under that row's index label, and every match
\* is a row of only_munro_tops: a row of the table labelled "Munro Top"; after
\* the mutate every row of only_munros carries the name and point of its match.
C10_OnePerMunro ==
    (/\ only_munro_tops # <<>>
     /\ only_munros # <<>>
     /\ pc = "mutate" \/ Completed("match"))
    => /\ closest_points.kind = "DataFrame"
       /\ Len(closest_points.rows) = Len(only_munros)
       /\ \A i \in 1..Len(only_munros) :
             LET c == closest_points.rows[i]
             IN /\ c.idx = only_munros[i].idx
                /\ \E j \in 1..Len(only_munro_tops) :
                       \A f \in OwnColumns \ {"idx"} :
                           c[f] = only_munro_tops[j][f]
                /\ \E k \in 1..Len(munros_geo) :
                       /\ munros_geo[k].Name = c.Name
                       /\ munros_geo[k].c2021 = "Munro Top"
                       /\ munros_geo[k].geometry = c.geometry
                /\ Completed("match") =>
                       /\ only_munros[i].closest_name = c.Name
                       /\ only_munros[i].closest_geometry = c.geometry

\* C10 witness: a Munro matched while the table also holds a Munro Top and a
\* dropped row, both where the Munro is.
C10_Witness ==
    /\ pc = "mutate"
    /\ only_munros # <<>>
    /\ only_munro_tops # <<>>
    /\ only_munros[1].geometry = <<0, 0>>
    /\ \E j \in 1..Len(only_munro_tops) : only_munro_tops[j].geometry = <<0, 0>>
    /\ Len(munros_geo) > Len(only_munros) + Len(only_munro_tops)

====
